---- MODULE Spec2Model ----
(***************************************************************************)
(* rustify: the deployment pipeline of src/main.rs as a state machine.     *)
(*                                                                         *)
(* Every external process (docker, kubectl, systemctl) and every file      *)
(* write is an input of the environment: the step that issues it draws its *)
(* result nondeterministically and appends the call to `log`.              *)
(*   "ok"        the process was spawned and exited with status 0          *)
(*   "fail"      the process was spawned and exited non-zero               *)
(*   "spawn_err" Command::output()/status() returned Err (not spawned)     *)
(***************************************************************************)
EXTENDS Integers, Sequences, FiniteSets, TLC

VARIABLES
    op,          \* entry point being executed ("idle" before a call)
    pc,          \* position inside the entry point
    subcmd,      \* CLI subcommand given to main
    is_prod,     \* --prod
    auto_scale,  \* --rpl
    port,        \* --port
    metadata,    \* Option<AppMetadata>: <<>> before construction, <<record>> after
    stateFile,   \* content of .container-metadata.json: <<>> or <<record>>
    files,       \* generated files of the working directory: name -> content
    log,         \* external calls issued so far, in order, with their results
    i,           \* loop counter of the running `for` loop
    ret,         \* io::Result of the entry point (for main: of the failing stage)
    exit_code,   \* process exit code of main: -1 while running
    containers,  \* names of the containers that exist in the container runtime
    cluster,     \* objects that exist in the cluster
    calls        \* entry points already completed in this working directory

vars == <<op, pc, subcmd, is_prod, auto_scale, port, metadata, stateFile, files, log, i, ret, exit_code,
          containers, cluster, calls>>

(***************************************************************************)
(* Bounds of the model                                                     *)
(***************************************************************************)
MaxOut == 3      \* longest stdout (in tokens) of `kubectl get pods -o jsonpath`
MaxCalls == 2    \* calls of the same entry point in a row

(***************************************************************************)
(* Program constants                                                       *)
(***************************************************************************)
DockerPollAttempts == 30     \* for _ in 0..30
DockerPollSleep == 2         \* Duration::from_secs(2)
ConnectAttempts == 3         \* for i in 0..3
ConnectBackoff == 5          \* Duration::from_secs(5)
RolloutTimeout == 300        \* --timeout=300s

(***************************************************************************)
(* Option<T> and io::Result                                                *)
(***************************************************************************)
None == <<>>
Some(x) == <<x>>
IsSome(o) == Len(o) = 1
Unwrap(o) == o[1]

\* `at` is the position at which the entry point returned
Running == [kind |-> "running", val |-> "", at |-> ""]
Ok(v) == [kind |-> "Ok", val |-> v, at |-> ""]
Err(msg) == [kind |-> "Err", val |-> msg, at |-> ""]

(***************************************************************************)
(* Results of external calls                                               *)
(***************************************************************************)
CmdResult == {"ok", "fail", "spawn_err"}
WriteResult == {"ok", "io_err"}

\* Command::output() / status() returned Ok(_): the process was spawned
Spawned(r) == r # "spawn_err"
\* output.status.success()
Success(r) == r = "ok"

\* one entry of the trace of external calls: the command, its result, the
\* whitespace-separated tokens of its stdout, and its time argument (seconds)
Call(cmd, r, out) == [cmd |-> cmd, st |-> r, out |-> out, secs |-> 0]
Timed(cmd, r, secs) == [cmd |-> cmd, st |-> r, out |-> <<>>, secs |-> secs]
Sleep(secs) == Timed("sleep", "ok", secs)

(***************************************************************************)
(* The working directory: fs::write(name, content)                         *)
(***************************************************************************)
NoFiles == [n \in {} |-> [kind |-> "none"]]
Written(fs, name, content) ==
    [n \in DOMAIN fs \cup {name} |-> IF n = name THEN content ELSE fs[n]]
FsWrite(name, w) == [cmd |-> "fs::write " \o name, st |-> w, out |-> <<>>, secs |-> 0]

(***************************************************************************)
(* AppMetadata as constructed by the deploy subcommand                     *)
(***************************************************************************)
Ports == {"8000", "3000"}    \* --port <PORT>, default 8000

\* line 432, `Local::now().to_rfc3339()`: the clock advances from one
\* invocation to the next
Now == calls

\* lines 428-446
MetadataWithStatus(prod, scale, pt, st) ==
    [ app_name           |-> "app",
      app_type           |-> "bun",
      port               |-> pt,
      created_at         |-> Now,
      container_id       |-> None,
      _status            |-> st,
      kubernetes_enabled |-> prod,
      namespace          |-> IF prod THEN "production" ELSE "development",
      deployment_name    |-> "app-deployment",
      service_name       |-> "app-service",
      replicas           |-> IF scale THEN 3 ELSE 1,
      pod_status         |-> <<>>,
      ingress_host       |-> None ]

\* a record that is born claiming a later stage
NewMetadata_running(prod, scale, pt) == MetadataWithStatus(prod, scale, pt, "running")
\* line 434: `_status: String::from("pending")`
NewMetadata(prod, scale, pt) == MetadataWithStatus(prod, scale, pt, "pending")

Init ==
    /\ op = "idle"
    /\ pc = "idle"
    /\ subcmd = "none"
    /\ is_prod = FALSE
    /\ auto_scale = FALSE
    /\ port = "8000"
    /\ metadata = None
    /\ stateFile = None
    /\ files = NoFiles
    /\ log = <<>>
    /\ i = 0
    /\ ret = Running
    /\ exit_code = -1
    /\ containers = {}
    /\ cluster = {}
    /\ calls = 0

\* return from the running entry point
Return(r) ==
    /\ ret' = [r EXCEPT !.at = pc]
    /\ pc' = "done"
    /\ exit_code' = IF op = "main" THEN (IF r.kind = "Ok" THEN 0 ELSE 1) ELSE exit_code

(***************************************************************************)
(* main: the process is started with a subcommand and its flags            *)
(***************************************************************************)
main ==
    /\ pc = "idle"
    /\ \E s \in {"deploy", "init", "usage"}, p \in BOOLEAN, a \in BOOLEAN, pt \in Ports :
          /\ s # "deploy" => (~p /\ ~a /\ pt = "8000")
          /\ subcmd' = s
          /\ is_prod' = p
          /\ auto_scale' = a
          /\ port' = pt
    /\ op' = "main"
    /\ pc' = "ckc_docker_info"
    /\ UNCHANGED <<metadata, stateFile, files, log, i, ret, exit_code>>
    /\ UNCHANGED <<containers, cluster, calls>>

\* the deploy subcommand is run again with the same arguments after a run
\* that exited 0: a new process without a record, in the same directory
\* and against the same container runtime and cluster
main_again ==
    /\ pc = "done"
    /\ op = "main"
    /\ subcmd = "deploy"
    /\ exit_code = 0
    /\ calls < MaxCalls
    /\ calls' = calls + 1
    /\ pc' = "ckc_docker_info"
    /\ metadata' = None
    /\ log' = <<>>
    /\ i' = 0
    /\ ret' = Running
    /\ exit_code' = -1
    /\ UNCHANGED <<op, subcmd, is_prod, auto_scale, port, stateFile, files>>
    /\ UNCHANGED <<containers, cluster>>

(***************************************************************************)
(* check_kubernetes_connection (called first by main, for every subcommand)*)
(***************************************************************************)
\* line 1222: `if let Err(_) = Command::new("docker").arg("info").output()`
DockerDesktopRunning(r) == Spawned(r)

check_kubernetes_connection_docker_info ==
    /\ pc = "ckc_docker_info"
    /\ \E r \in CmdResult :
          /\ log' = Append(log, Call("docker info", r, <<>>))
          /\ IF DockerDesktopRunning(r)
                THEN /\ pc' = "ckc_current_context"
                     /\ UNCHANGED <<ret, exit_code>>
                ELSE Return(Err("Docker Desktop is not running. Please start Docker Desktop first."))
    /\ UNCHANGED <<op, subcmd, is_prod, auto_scale, port, metadata, stateFile, files, i>>
    /\ UNCHANGED <<containers, cluster, calls>>

\* stdout of `kubectl config current-context` when a context is set
CurrentContexts == {<<"docker-desktop">>, <<"minikube">>}

\* lines 1230-1234: only the exit status of the query is looked at
check_kubernetes_connection_current_context ==
    /\ pc = "ckc_current_context"
    /\ \E r \in CmdResult, out \in CurrentContexts \cup {<<>>} :
          /\ Success(r) <=> out # <<>>
          /\ log' = Append(log, Call("kubectl config current-context", r, out))
          /\ IF ~Spawned(r)
                THEN /\ Return(Err("io error"))
                     /\ i' = i
                ELSE /\ pc' = IF Success(r) THEN "ckc_cluster_info" ELSE "ckc_get_contexts"
                     /\ i' = 0
                     /\ UNCHANGED <<ret, exit_code>>
    /\ UNCHANGED <<op, subcmd, is_prod, auto_scale, port, metadata, stateFile, files>>
    /\ UNCHANGED <<containers, cluster, calls>>

\* stdout of `kubectl config get-contexts -o name`
ContextLists == {<<>>, <<"minikube">>, <<"minikube", "docker-desktop">>}
\* contexts.contains("docker-desktop")
ContainsDockerDesktop(out) == \E k \in 1..Len(out) : out[k] = "docker-desktop"

check_kubernetes_connection_get_contexts ==
    /\ pc = "ckc_get_contexts"
    /\ \E r \in CmdResult, out \in ContextLists :
          /\ Spawned(r) \/ out = <<>>
          /\ log' = Append(log, Call("kubectl config get-contexts", r, out))
          /\ IF ~Spawned(r)
                THEN Return(Err("io error"))
                ELSE IF ContainsDockerDesktop(out)
                       THEN /\ pc' = "ckc_use_context"
                            /\ UNCHANGED <<ret, exit_code>>
                       ELSE Return(Err("Docker Desktop Kubernetes is not enabled. Please enable it in Docker Desktop settings."))
    /\ UNCHANGED <<op, subcmd, is_prod, auto_scale, port, metadata, stateFile, files, i>>
    /\ UNCHANGED <<containers, cluster, calls>>

check_kubernetes_connection_use_context ==
    /\ pc = "ckc_use_context"
    /\ \E r \in CmdResult :
          /\ log' = Append(log, Call("kubectl config use-context docker-desktop", r, <<>>))
          /\ IF ~Spawned(r)
                THEN Return(Err("io error"))
                ELSE /\ pc' = "ckc_cluster_info"
                     /\ UNCHANGED <<ret, exit_code>>
    /\ UNCHANGED <<op, subcmd, is_prod, auto_scale, port, metadata, stateFile, files, i>>
    /\ UNCHANGED <<containers, cluster, calls>>

\* the exit status of cluster-info is not looked at
ClusterConnected_spawned(r) == Spawned(r)
\* line 1265: `Ok(output) if output.status.success()`
ClusterConnected(r) == Success(r)
\* line 1269: `_ if i == 2`
LastConnectAttempt(k) == k = 2
\* line 1259: `if i > 0 { ...sleep(5s) }`
BackoffBefore(k) == IF k > 0 THEN <<Sleep(ConnectBackoff)>> ELSE <<>>

\* main, lines 367-370 and 409-465: what follows the connection check
main_after_check(r) ==
    IF r.kind = "Err"
      THEN /\ Return(r)
           /\ UNCHANGED metadata
      ELSE IF subcmd = "deploy"
             THEN /\ metadata' = Some(NewMetadata(is_prod, auto_scale, port))
                  /\ pc' = "dwd_build"
                  /\ UNCHANGED <<ret, exit_code>>
             ELSE IF subcmd = "init"
                    THEN /\ pc' = "init_project"
                         /\ UNCHANGED <<ret, exit_code, metadata>>
                    ELSE /\ Return(Ok(""))
                         /\ UNCHANGED metadata

\* one iteration of `for i in 0..3`
check_kubernetes_connection_cluster_info ==
    /\ pc = "ckc_cluster_info"
    /\ i < ConnectAttempts
    /\ \E r \in CmdResult :
          /\ log' = log \o BackoffBefore(i) \o <<Call("kubectl cluster-info", r, <<>>)>>
          /\ IF ClusterConnected(r)
                THEN /\ main_after_check(Ok(""))
                     /\ i' = i
                ELSE IF LastConnectAttempt(i)
                       THEN /\ main_after_check(Err("Failed to connect to Kubernetes cluster after 3 attempts"))
                            /\ i' = i
                       ELSE /\ i' = i + 1
                            /\ UNCHANGED <<pc, ret, exit_code, metadata>>
    /\ UNCHANGED <<op, subcmd, is_prod, auto_scale, port, stateFile, files>>
    /\ UNCHANGED <<containers, cluster, calls>>

(***************************************************************************)
(* main's init subcommand: initialize_project, then create_docker_files    *)
(***************************************************************************)
\* lines 1592-1618 in a fresh directory (no .git): the project skeleton of
\* create_app_files is one write, then `git init` (`.output()?`), then
\* .gitignore
initialize_project ==
    /\ pc = "init_project"
    /\ \E w \in WriteResult, g \in CmdResult, w2 \in WriteResult :
          /\ (w = "io_err") => (g = "ok" /\ w2 = "ok")
          /\ ~Spawned(g) => w2 = "ok"
          /\ IF w = "io_err"
                THEN /\ log' = Append(log, FsWrite("src", w))
                     /\ files' = files
                     /\ Return(Err("io error"))
                ELSE IF ~Spawned(g)
                       THEN /\ log' = log \o <<FsWrite("src", w), Call("git init", g, <<>>)>>
                            /\ files' = Written(files, "src", [kind |-> "project", type |-> "bun"])
                            /\ Return(Err("io error"))
                       ELSE /\ log' = log \o <<FsWrite("src", w), Call("git init", g, <<>>),
                                                FsWrite(".gitignore", w2)>>
                            /\ IF w2 = "io_err"
                                  THEN /\ files' = Written(files, "src", [kind |-> "project", type |-> "bun"])
                                       /\ Return(Err("io error"))
                                  ELSE /\ files' = Written(Written(files, "src",
                                                               [kind |-> "project", type |-> "bun"]),
                                                           ".gitignore", [kind |-> "gitignore"])
                                       /\ pc' = "init_docker_files"
                                       /\ UNCHANGED <<ret, exit_code>>
    /\ UNCHANGED <<op, subcmd, is_prod, auto_scale, port, metadata, stateFile, i>>
    /\ UNCHANGED <<containers, cluster, calls>>

\* lines 3874-3877: fs::write("Dockerfile")?; fs::write(".dockerignore")?; Ok(())
create_docker_files ==
    /\ pc = "init_docker_files"
    /\ \E w \in WriteResult, w2 \in WriteResult :
          /\ (w = "io_err") => (w2 = "ok")
          /\ IF w = "io_err"
                THEN /\ log' = Append(log, FsWrite("Dockerfile", w))
                     /\ files' = files
                     /\ Return(Err("io error"))
                ELSE /\ log' = log \o <<FsWrite("Dockerfile", w), FsWrite(".dockerignore", w2)>>
                     /\ IF w2 = "io_err"
                           THEN /\ files' = Written(files, "Dockerfile",
                                                    [kind |-> "Dockerfile", port |-> "3000"])
                                /\ Return(Err("io error"))
                           ELSE /\ files' = Written(Written(files, "Dockerfile",
                                                            [kind |-> "Dockerfile", port |-> "3000"]),
                                                    ".dockerignore", [kind |-> "dockerignore"])
                                /\ Return(Ok(""))
    /\ UNCHANGED <<op, subcmd, is_prod, auto_scale, port, metadata, stateFile, i>>
    /\ UNCHANGED <<containers, cluster, calls>>

(***************************************************************************)
(* deploy_with_docker (main's deploy subcommand, before deploy_application)*)
(***************************************************************************)
\* the tag deploy_to_docker builds (line 570)
BuildTag_app(m) == m.app_name \o "-app"
\* lines 3883-3898 and 3900-3918: `.status()?` then `if !status.success()`
BuildTag(m) == m.app_name \o ":latest"

deploy_with_docker_build ==
    /\ pc = "dwd_build"
    /\ \E r \in CmdResult :
          /\ log' = Append(log, Call("docker build -t " \o BuildTag(Unwrap(metadata)), r, <<>>))
          /\ IF ~Spawned(r)
                THEN Return(Err("io error"))
                ELSE IF ~Success(r)
                       THEN Return(Err("Failed to build Docker image"))
                       ELSE /\ pc' = "dwd_run"
                            /\ UNCHANGED <<ret, exit_code>>
    /\ UNCHANGED <<op, subcmd, is_prod, auto_scale, port, metadata, stateFile, files, i>>
    /\ UNCHANGED <<containers, cluster, calls>>

\* `docker run --name <name>` is rejected while a container of that name
\* exists (running or stopped); a run that exits 0 has created the container
RunOutcomes(name) == {r \in CmdResult : Success(r) => name \notin containers}
Started(name, r) == IF Success(r) THEN containers \cup {name} ELSE containers

deploy_with_docker_run ==
    /\ pc = "dwd_run"
    /\ \E r \in RunOutcomes(Unwrap(metadata).app_name) :
          /\ log' = Append(log, Call("docker run -d --name " \o Unwrap(metadata).app_name, r,
                                     IF Success(r) THEN <<"cid">> ELSE <<>>))
          /\ containers' = Started(Unwrap(metadata).app_name, r)
          /\ IF ~Spawned(r)
                THEN Return(Err("io error"))
                ELSE IF ~Success(r)
                       THEN Return(Err("Failed to start Docker container"))
                       ELSE /\ pc' = "vi_docker_version"
                            /\ UNCHANGED <<ret, exit_code>>
    /\ UNCHANGED <<op, subcmd, is_prod, auto_scale, port, metadata, stateFile, files, i>>
    /\ UNCHANGED <<cluster, calls>>

(***************************************************************************)
(* deploy_application: verify_infrastructure                               *)
(***************************************************************************)
verify_infrastructure_docker_version ==
    /\ pc = "vi_docker_version"
    /\ \E r \in CmdResult :
          /\ log' = Append(log, Call("docker --version", r, <<>>))
          /\ IF Spawned(r)
                THEN /\ pc' = "vi_docker_ps"
                     /\ UNCHANGED <<ret, exit_code>>
                ELSE Return(Err("Docker is not installed or not in PATH"))
    /\ UNCHANGED <<op, subcmd, is_prod, auto_scale, port, metadata, stateFile, files, i>>
    /\ UNCHANGED <<containers, cluster, calls>>

\* line 958-959: `match ...args(["ps"]).output() { Ok(_) => ... }`
DockerDaemonRunning(r) == Spawned(r)

verify_infrastructure_docker_ps ==
    /\ pc = "vi_docker_ps"
    /\ \E r \in CmdResult :
          /\ log' = Append(log, Call("docker ps", r, <<>>))
          /\ IF DockerDaemonRunning(r)
                THEN /\ pc' = "vi_use_context"
                     /\ UNCHANGED <<ret, exit_code>>
                ELSE Return(Err("Docker daemon is not running. Please start Docker Desktop or docker service"))
    /\ UNCHANGED <<op, subcmd, is_prod, auto_scale, port, metadata, stateFile, files, i>>
    /\ UNCHANGED <<containers, cluster, calls>>

verify_infrastructure_use_context ==
    /\ pc = "vi_use_context"
    /\ \E r \in CmdResult :
          /\ log' = Append(log, Call("kubectl config use-context docker-desktop", r, <<>>))
          /\ IF Spawned(r)
                THEN /\ pc' = "vi_cluster_info_dump"
                     /\ UNCHANGED <<ret, exit_code>>
                ELSE Return(Err("io error"))
    /\ UNCHANGED <<op, subcmd, is_prod, auto_scale, port, metadata, stateFile, files, i>>
    /\ UNCHANGED <<containers, cluster, calls>>

verify_infrastructure_cluster_info_dump ==
    /\ pc = "vi_cluster_info_dump"
    /\ \E r \in CmdResult :
          /\ log' = Append(log, Call("kubectl cluster-info dump", r, <<>>))
          /\ IF ~Spawned(r)
                THEN Return(Err("Cannot connect to Kubernetes cluster"))
                ELSE IF ~Success(r)
                       THEN Return(Err("Kubernetes cluster is not ready"))
                       ELSE /\ pc' = "vi_get_namespaces"
                            /\ UNCHANGED <<ret, exit_code>>
    /\ UNCHANGED <<op, subcmd, is_prod, auto_scale, port, metadata, stateFile, files, i>>
    /\ UNCHANGED <<containers, cluster, calls>>

verify_infrastructure_get_namespaces ==
    /\ pc = "vi_get_namespaces"
    /\ \E r \in CmdResult :
          /\ log' = Append(log, Call("kubectl get namespaces", r, <<>>))
          /\ IF Spawned(r)
                THEN /\ pc' = "vi_get_ingress_pods"
                     /\ UNCHANGED <<ret, exit_code>>
                ELSE Return(Err("io error"))
    /\ UNCHANGED <<op, subcmd, is_prod, auto_scale, port, metadata, stateFile, files, i>>
    /\ UNCHANGED <<containers, cluster, calls>>

\* deploy_application, lines 476-493: what follows verify_infrastructure()?
after_verify_infrastructure ==
    IF IsSome(Unwrap(metadata).container_id) THEN "vcs_inspect_running"
    ELSE IF is_prod THEN "gkm_write_deployment"
    ELSE "save_metadata"

\* line 1003: `if ingress_pods.is_err()`
verify_infrastructure_get_ingress_pods ==
    /\ pc = "vi_get_ingress_pods"
    /\ \E r \in CmdResult :
          /\ log' = Append(log, Call("kubectl get pods -n ingress-nginx", r, <<>>))
          /\ pc' = IF ~Spawned(r) THEN "ini_apply" ELSE after_verify_infrastructure
    /\ UNCHANGED <<op, subcmd, is_prod, auto_scale, port, metadata, stateFile, files, i, ret, exit_code>>
    /\ UNCHANGED <<containers, cluster, calls>>

install_nginx_ingress_apply ==
    /\ pc = "ini_apply"
    /\ \E r \in CmdResult :
          /\ log' = Append(log, Call("kubectl apply -f ingress-nginx/deploy.yaml", r, <<>>))
          /\ IF Spawned(r)
                THEN /\ pc' = "ini_wait"
                     /\ UNCHANGED <<ret, exit_code>>
                ELSE Return(Err("io error"))
    /\ UNCHANGED <<op, subcmd, is_prod, auto_scale, port, metadata, stateFile, files, i>>
    /\ UNCHANGED <<containers, cluster, calls>>

install_nginx_ingress_wait ==
    /\ pc = "ini_wait"
    /\ \E r \in CmdResult :
          /\ log' = Append(log, Timed("kubectl wait -n ingress-nginx", r, 300))
          /\ IF Spawned(r)
                THEN /\ pc' = after_verify_infrastructure
                     /\ UNCHANGED <<ret, exit_code>>
                ELSE Return(Err("io error"))
    /\ UNCHANGED <<op, subcmd, is_prod, auto_scale, port, metadata, stateFile, files, i>>
    /\ UNCHANGED <<containers, cluster, calls>>

(***************************************************************************)
(* deploy_application: verify_container_status (only with a container id)  *)
(***************************************************************************)
\* stdout of `docker inspect -f {{.State.Running}}`
RunningStates == {<<"true">>, <<"false">>, <<>>}
\* anything but an explicit "false" counts as running
ReportsRunning_notFalse(out) == out # <<"false">>
\* line 623: `String::from_utf8_lossy(&output.stdout).trim() != "true"`
ReportsRunning(out) == out = <<"true">>

after_verify_container == IF is_prod THEN "gkm_write_deployment" ELSE "save_metadata"

verify_container_status_running ==
    /\ pc = "vcs_inspect_running"
    /\ \E r \in CmdResult, out \in RunningStates :
          /\ Success(r) <=> out # <<>>
          /\ log' = Append(log, Call("docker inspect .State.Running", r, out))
          /\ IF ~Spawned(r)
                THEN Return(Err("io error"))
                ELSE IF ~ReportsRunning(out)
                       THEN Return(Err("Container is not running"))
                       ELSE /\ pc' = "vcs_inspect_health"
                            /\ UNCHANGED <<ret, exit_code>>
    /\ UNCHANGED <<op, subcmd, is_prod, auto_scale, port, metadata, stateFile, files, i>>
    /\ UNCHANGED <<containers, cluster, calls>>

\* stdout of `docker inspect -f {{.State.Health.Status}}`
HealthStates == {<<"healthy">>, <<"unhealthy">>, <<"starting">>, <<>>}

verify_container_status_health ==
    /\ pc = "vcs_inspect_health"
    /\ \E r \in CmdResult, out \in HealthStates :
          /\ Success(r) <=> out # <<>>
          /\ log' = log \o <<Sleep(5), Call("docker inspect .State.Health.Status", r, out)>>
          /\ IF ~Spawned(r)
                THEN Return(Err("io error"))
                ELSE /\ pc' = after_verify_container
                     /\ UNCHANGED <<ret, exit_code>>
    /\ UNCHANGED <<op, subcmd, is_prod, auto_scale, port, metadata, stateFile, files, i>>
    /\ UNCHANGED <<containers, cluster, calls>>

(***************************************************************************)
(* generate_kubernetes_manifests                                           *)
(***************************************************************************)
\* a quantity as the yaml writes it: "500m" is Quantity(500, "m"), "2Gi" is
\* Quantity(2, "Gi"), "1" is Quantity(1, "")
Quantity(n, unit) == [n |-> n, unit |-> unit]

\* every mode gets the figures of the else branch
Resources_flat(mode) ==
    [req_cpu |-> Quantity(500, "m"), req_mem |-> Quantity(512, "Mi"),
     lim_cpu |-> Quantity(1, ""),    lim_mem |-> Quantity(1, "Gi")]
\* lines 669-687: resources by mode
Resources(mode) ==
    IF mode = "prod"
      THEN [req_cpu |-> Quantity(1, ""),    req_mem |-> Quantity(2, "Gi"),
            lim_cpu |-> Quantity(2, ""),    lim_mem |-> Quantity(4, "Gi")]
      ELSE [req_cpu |-> Quantity(500, "m"), req_mem |-> Quantity(512, "Mi"),
            lim_cpu |-> Quantity(1, ""),    lim_mem |-> Quantity(1, "Gi")]

\* the render counts the invocations made so far into the artifact
DeploymentManifest_counting(app_name, pt, replicas, namespace, mode) ==
    [ kind      |-> "Deployment",
      name      |-> app_name \o "-deployment",
      namespace |-> namespace,
      replicas  |-> replicas + calls,
      app       |-> app_name,
      image     |-> app_name \o ":latest",
      port      |-> pt,
      node_env  |-> mode,
      resources |-> Resources(mode) ]
\* lines 689-759
DeploymentManifest(app_name, pt, replicas, namespace, mode) ==
    [ kind      |-> "Deployment",
      name      |-> app_name \o "-deployment",
      namespace |-> namespace,
      replicas  |-> replicas,
      app       |-> app_name,
      image     |-> app_name \o ":latest",
      port      |-> pt,
      node_env  |-> mode,
      resources |-> Resources(mode) ]

\* lines 764-784
ServiceManifest(app_name, pt, namespace) ==
    [ kind      |-> "Service",
      name      |-> app_name \o "-service",
      namespace |-> namespace,
      app       |-> app_name,
      port      |-> pt ]

\* both callers (lines 482-489 and 513) pass mode "prod"; a direct call
\* passes the mode it was given
RenderMode ==
    IF op = "generate_kubernetes_manifests" /\ ~is_prod THEN "dev" ELSE "prod"

AppNames == {"app", "api"}
Namespaces == {"production", "development"}
ReplicaCounts == {1, 3}
\* the arguments of a direct call, carried by a record
RenderInputs ==
    {[NewMetadata(TRUE, FALSE, pt) EXCEPT !.app_name = a, !.namespace = ns, !.replicas = n] :
        a \in AppNames, pt \in Ports, ns \in Namespaces, n \in ReplicaCounts}
\* the directory a direct call meets: empty, or holding the manifests of an
\* earlier render
Rendered(m, mode) ==
    Written(Written(NoFiles, "k8s-deployment.yaml",
                    DeploymentManifest(m.app_name, m.port, m.replicas, m.namespace, mode)),
            "k8s-service.yaml", ServiceManifest(m.app_name, m.port, m.namespace))
EarlierRenders == {NoFiles, Rendered(NewMetadata(TRUE, TRUE, "3000"), "prod"),
                   Rendered(NewMetadata(FALSE, FALSE, "8000"), "dev")}

\* generate_kubernetes_manifests(app_name, _, port, replicas, namespace, mode)
generate_kubernetes_manifests ==
    /\ pc = "idle"
    /\ metadata' \in {Some(m) : m \in RenderInputs}
    /\ is_prod' \in BOOLEAN
    /\ files' \in EarlierRenders
    /\ op' = "generate_kubernetes_manifests"
    /\ pc' = "gkm_write_deployment"
    /\ UNCHANGED <<subcmd, auto_scale, port, stateFile, log, i, ret, exit_code>>
    /\ UNCHANGED <<containers, cluster, calls>>

\* the same arguments are rendered again, later (the record carries a new
\* timestamp), after a render that returned Ok
generate_kubernetes_manifests_again ==
    /\ pc = "done"
    /\ op = "generate_kubernetes_manifests"
    /\ ret.kind = "Ok"
    /\ calls < MaxCalls
    /\ calls' = calls + 1
    /\ metadata' = Some([Unwrap(metadata) EXCEPT !.created_at = Now + 1])
    /\ pc' = "gkm_write_deployment"
    /\ ret' = Running
    /\ UNCHANGED <<op, subcmd, is_prod, auto_scale, port, stateFile, files, log, i, exit_code>>
    /\ UNCHANGED <<containers, cluster>>

generate_kubernetes_manifests_deployment ==
    /\ pc = "gkm_write_deployment"
    /\ \E w \in WriteResult :
          /\ log' = Append(log, FsWrite("k8s-deployment.yaml", w))
          /\ IF w = "ok"
                THEN /\ LET m == Unwrap(metadata) IN
                        files' = Written(files, "k8s-deployment.yaml",
                                    DeploymentManifest(m.app_name, m.port, m.replicas, m.namespace, RenderMode))
                     /\ pc' = "gkm_write_service"
                     /\ UNCHANGED <<ret, exit_code>>
                ELSE /\ Return(Err("io error"))
                     /\ UNCHANGED files
    /\ UNCHANGED <<op, subcmd, is_prod, auto_scale, port, metadata, stateFile, i>>
    /\ UNCHANGED <<containers, cluster, calls>>

generate_kubernetes_manifests_service ==
    /\ pc = "gkm_write_service"
    /\ \E w \in WriteResult :
          /\ log' = Append(log, FsWrite("k8s-service.yaml", w))
          /\ IF w = "ok"
                THEN /\ LET m == Unwrap(metadata) IN
                        files' = Written(files, "k8s-service.yaml",
                                    ServiceManifest(m.app_name, m.port, m.namespace))
                     /\ IF op = "generate_kubernetes_manifests"
                           THEN Return(Ok(""))
                           ELSE /\ pc' = IF op = "deploy_to_kubernetes" THEN "akm_create_namespace"
                                          ELSE "save_metadata"
                                /\ UNCHANGED <<ret, exit_code>>
                ELSE /\ Return(Err("io error"))
                     /\ UNCHANGED files
    /\ UNCHANGED <<op, subcmd, is_prod, auto_scale, port, metadata, stateFile, i>>
    /\ UNCHANGED <<containers, cluster, calls>>

(***************************************************************************)
(* save_metadata: serde_json (rename_all = "camelCase") + fs::write        *)
(***************************************************************************)
Serialize(m) ==
    [ appName           |-> m.app_name,
      appType           |-> m.app_type,
      port              |-> m.port,
      createdAt         |-> m.created_at,
      containerId       |-> m.container_id,
      status            |-> m._status,
      kubernetesEnabled |-> m.kubernetes_enabled,
      kubernetesMetadata |->
        [ namespace      |-> m.namespace,
          deploymentName |-> m.deployment_name,
          serviceName    |-> m.service_name,
          replicas       |-> m.replicas,
          podStatus      |-> m.pod_status,
          ingressHost    |-> m.ingress_host ] ]

save_metadata ==
    /\ pc = "save_metadata"
    /\ \E w \in WriteResult :
          /\ log' = Append(log, FsWrite(".container-metadata.json", w))
          /\ IF w = "ok"
                THEN /\ stateFile' = Some(Serialize(Unwrap(metadata)))
                     /\ Return(Ok(""))
                ELSE /\ Return(Err("io error"))
                     /\ UNCHANGED stateFile
    /\ UNCHANGED <<op, subcmd, is_prod, auto_scale, port, metadata, files, i>>
    /\ UNCHANGED <<containers, cluster, calls>>

\* deploy_application(&mut metadata, is_prod, auto_scale) called on a record
\* that may already carry a container id
deploy_application ==
    /\ pc = "idle"
    /\ \E p \in BOOLEAN, a \in BOOLEAN, cid \in {None, Some("cid")} :
          /\ is_prod' = p
          /\ auto_scale' = a
          /\ metadata' = Some([NewMetadata(p, a, "8000") EXCEPT !.container_id = cid])
    /\ op' = "deploy_application"
    /\ pc' = "vi_docker_version"
    /\ UNCHANGED <<subcmd, port, stateFile, files, log, i, ret, exit_code>>
    /\ UNCHANGED <<containers, cluster, calls>>

(***************************************************************************)
(* deploy_to_kubernetes: generate, apply, wait for the rollout, poll pods  *)
(***************************************************************************)
\* the cluster a procedure meets: the target namespace exists already or not
Clusters == {{}, {"namespace"}}

\* the manifests carry `namespace: {namespace}` (lines 694, 769) and the
\* quota is applied with `-n <namespace>` (line 1110): kubectl exits 0 only
\* if that namespace exists, and the object exists afterwards
AppliedObjects(obj, r) ==
    IF Success(r) THEN cluster \cup {obj} ELSE cluster
ApplyOutcomes == {r \in CmdResult : Success(r) => "namespace" \in cluster}

deploy_to_kubernetes ==
    /\ pc = "idle"
    /\ \E a \in BOOLEAN :
          /\ auto_scale' = a
          /\ metadata' = Some(NewMetadata(TRUE, a, "8000"))
    /\ is_prod' = TRUE
    /\ op' = "deploy_to_kubernetes"
    /\ pc' = "gkm_write_deployment"
    /\ cluster' \in Clusters
    /\ UNCHANGED <<subcmd, port, stateFile, files, log, i, ret, exit_code>>
    /\ UNCHANGED <<containers, calls>>

\* `kubectl create namespace <ns> --dry-run=client -o yaml` only prints the
\* object: nothing is sent to the cluster and the printed yaml is dropped
DryRunObjects(r) == cluster

\* lines 792-810: every kubectl call of apply_kubernetes_manifests is
\* `.output()?`: only a spawn error is propagated
Applied(r) == Spawned(r)

apply_kubernetes_manifests_namespace ==
    /\ pc = "akm_create_namespace"
    /\ \E r \in CmdResult :
          /\ log' = Append(log, Call("kubectl create namespace --dry-run=client", r, <<>>))
          /\ cluster' = DryRunObjects(r)
          /\ IF Applied(r)
                THEN /\ pc' = "akm_apply_deployment"
                     /\ UNCHANGED <<ret, exit_code>>
                ELSE Return(Err("io error"))
    /\ UNCHANGED <<op, subcmd, is_prod, auto_scale, port, metadata, stateFile, files, i>>
    /\ UNCHANGED <<containers, calls>>

apply_kubernetes_manifests_deployment ==
    /\ pc = "akm_apply_deployment"
    /\ \E r \in ApplyOutcomes :
          /\ log' = Append(log, Call("kubectl apply -f k8s-deployment.yaml", r, <<>>))
          /\ cluster' = AppliedObjects("deployment", r)
          /\ IF Applied(r)
                THEN /\ pc' = "akm_apply_service"
                     /\ UNCHANGED <<ret, exit_code>>
                ELSE Return(Err("io error"))
    /\ UNCHANGED <<op, subcmd, is_prod, auto_scale, port, metadata, stateFile, files, i>>
    /\ UNCHANGED <<containers, calls>>

apply_kubernetes_manifests_service ==
    /\ pc = "akm_apply_service"
    /\ \E r \in ApplyOutcomes :
          /\ log' = Append(log, Call("kubectl apply -f k8s-service.yaml", r, <<>>))
          /\ cluster' = AppliedObjects("service", r)
          /\ IF Applied(r)
                THEN /\ pc' = "wfk_rollout_status"
                     /\ UNCHANGED <<ret, exit_code>>
                ELSE Return(Err("io error"))
    /\ UNCHANGED <<op, subcmd, is_prod, auto_scale, port, metadata, stateFile, files, i>>
    /\ UNCHANGED <<containers, calls>>

\* a rollout can only complete for a Deployment that exists
RolloutOutcomes == {r \in CmdResult : Success(r) => "deployment" \in cluster}

\* lines 817-834: `kubectl rollout status deployment <name> -n <ns> --timeout=300s`
wait_for_kubernetes_deployment ==
    /\ pc = "wfk_rollout_status"
    /\ \E r \in RolloutOutcomes :
          /\ log' = Append(log, Timed("kubectl rollout status deployment "
                                        \o Unwrap(metadata).deployment_name
                                        \o " -n " \o Unwrap(metadata).namespace, r, RolloutTimeout))
          /\ IF ~Spawned(r)
                THEN Return(Err("io error"))
                ELSE IF ~Success(r)
                       THEN Return(Err("Deployment failed to roll out"))
                       ELSE /\ pc' = "ups_get_pods"
                            /\ UNCHANGED <<ret, exit_code>>
    /\ UNCHANGED <<op, subcmd, is_prod, auto_scale, port, metadata, stateFile, files, i>>
    /\ UNCHANGED <<containers, cluster, calls>>

\* stdout of `kubectl get pods -o jsonpath={.items[*].status.phase}` as a
\* sequence of pieces: a phase word or a run of whitespace
Piece == {"Running", "Pending", " "}
RECURSIVE Stdouts(_)
Stdouts(n) == IF n = 0 THEN {<<>>}
              ELSE Stdouts(n - 1) \cup {Append(s, t) : s \in {x \in Stdouts(n - 1) : Len(x) = n - 1}, t \in Piece}

\* str::split_whitespace: maximal runs of non-whitespace pieces, in order
RECURSIVE split_whitespace_from(_, _, _)
split_whitespace_from(out, k, word) ==
    IF k > Len(out)
      THEN IF word = "" THEN <<>> ELSE <<word>>
      ELSE IF out[k] = " "
             THEN (IF word = "" THEN <<>> ELSE <<word>>) \o split_whitespace_from(out, k + 1, "")
             ELSE split_whitespace_from(out, k + 1, word \o out[k])
split_whitespace(out) == split_whitespace_from(out, 1, "")

\* a caller polls the pods of its record, again after a poll has returned
update_pod_status_call ==
    /\ \/ pc = "idle"
       \/ (pc = "done" /\ op = "update_pod_status")
    /\ calls < MaxCalls
    /\ calls' = calls + 1
    /\ metadata' = IF IsSome(metadata) THEN metadata ELSE Some(NewMetadata(TRUE, FALSE, "8000"))
    /\ op' = "update_pod_status"
    /\ pc' = "ups_get_pods"
    /\ ret' = Running
    /\ UNCHANGED <<subcmd, is_prod, auto_scale, port, stateFile, files, log, i, exit_code>>
    /\ UNCHANGED <<containers, cluster>>

\* the new phases are added to the ones of the poll before
NewPodStatus_append(old, out) == old \o split_whitespace(out)
\* lines 851-856: `metadata.kubernetes_metadata.pod_status = status.split_whitespace()...collect()`
NewPodStatus(old, out) == split_whitespace(out)

\* lines 839-859; deploy_to_kubernetes returns right after it (line 532)
update_pod_status ==
    /\ pc = "ups_get_pods"
    /\ \E r \in CmdResult, out \in Stdouts(MaxOut) :
          /\ Success(r) \/ out = <<>>
          /\ log' = Append(log, Call("kubectl get pods -l app=" \o Unwrap(metadata).app_name, r, out))
          /\ IF ~Spawned(r)
                THEN /\ Return(Err("io error"))
                     /\ UNCHANGED metadata
                ELSE /\ metadata' = Some([Unwrap(metadata) EXCEPT
                                             !.pod_status = NewPodStatus(@, out)])
                     /\ Return(IF op = "deploy_to_kubernetes"
                                 THEN Ok(Unwrap(metadata).app_name \o "-deployment")
                                 ELSE Ok(""))
    /\ UNCHANGED <<op, subcmd, is_prod, auto_scale, port, stateFile, files, i>>
    /\ UNCHANGED <<containers, cluster, calls>>

(***************************************************************************)
(* deploy_to_docker                                                        *)
(***************************************************************************)
AppTypes == {"bun", "node"}

deploy_to_docker ==
    /\ pc = "idle"
    /\ \E t \in AppTypes :
          metadata' = Some([NewMetadata(FALSE, FALSE, "8000") EXCEPT !.app_type = t])
    /\ op' = "deploy_to_docker"
    /\ pc' = "dtd_write_dockerfile"
    /\ UNCHANGED <<subcmd, is_prod, auto_scale, port, stateFile, files, log, i, ret, exit_code>>
    /\ UNCHANGED <<containers, cluster, calls>>

\* lines 539-551
deploy_to_docker_dockerfile ==
    /\ pc = "dtd_write_dockerfile"
    /\ IF Unwrap(metadata).app_type # "bun"
         THEN /\ Return(Err("Unsupported app type"))
              /\ UNCHANGED <<files, log>>
         ELSE \E w \in WriteResult :
                /\ log' = Append(log, FsWrite("Dockerfile", w))
                /\ IF w = "ok"
                     THEN /\ files' = Written(files, "Dockerfile",
                                         [kind |-> "Dockerfile", port |-> Unwrap(metadata).port])
                          /\ pc' = "dtd_write_compose"
                          /\ UNCHANGED <<ret, exit_code>>
                     ELSE /\ Return(Err("io error"))
                          /\ UNCHANGED files
    /\ UNCHANGED <<op, subcmd, is_prod, auto_scale, port, metadata, stateFile, i>>
    /\ UNCHANGED <<containers, cluster, calls>>

\* lines 553-565
deploy_to_docker_compose ==
    /\ pc = "dtd_write_compose"
    /\ \E w \in WriteResult :
          /\ log' = Append(log, FsWrite("docker-compose.yml", w))
          /\ IF w = "ok"
                THEN /\ files' = Written(files, "docker-compose.yml",
                                    [kind |-> "compose", service |-> Unwrap(metadata).app_name,
                                     port |-> Unwrap(metadata).port])
                     /\ pc' = "dtd_build"
                     /\ UNCHANGED <<ret, exit_code>>
                ELSE /\ Return(Err("io error"))
                     /\ UNCHANGED files
    /\ UNCHANGED <<op, subcmd, is_prod, auto_scale, port, metadata, stateFile, i>>
    /\ UNCHANGED <<containers, cluster, calls>>

\* lines 569-571: `Command::new("docker").args(["build", ...]).status()?;`
DockerBuilt(r) == Spawned(r)

deploy_to_docker_build ==
    /\ pc = "dtd_build"
    /\ \E r \in CmdResult :
          /\ log' = Append(log, Call("docker build -t " \o Unwrap(metadata).app_name \o "-app", r, <<>>))
          /\ IF DockerBuilt(r)
                THEN /\ pc' = "dtd_run"
                     /\ UNCHANGED <<ret, exit_code>>
                ELSE Return(Err("io error"))
    /\ UNCHANGED <<op, subcmd, is_prod, auto_scale, port, metadata, stateFile, files, i>>
    /\ UNCHANGED <<containers, cluster, calls>>

\* line 586: String::from_utf8_lossy(&container_id).trim().to_string()
Trimmed(out) == IF out = <<>> THEN "" ELSE out[1]

\* lines 575-586: `.output()?.stdout`
deploy_to_docker_run ==
    /\ pc = "dtd_run"
    /\ \E r \in CmdResult :
          LET out == IF Success(r) THEN <<"cid">> ELSE <<>> IN
          /\ log' = Append(log, Call("docker run -d " \o Unwrap(metadata).app_name \o "-app", r, out))
          /\ containers' = Started("cid", r)
          /\ IF Spawned(r)
                THEN Return(Ok(Trimmed(out)))
                ELSE Return(Err("io error"))
    /\ UNCHANGED <<op, subcmd, is_prod, auto_scale, port, metadata, stateFile, files, i>>
    /\ UNCHANGED <<cluster, calls>>

(***************************************************************************)
(* DockerManager::start_docker and DockerManager::launch_docker_desktop    *)
(***************************************************************************)
start_docker ==
    /\ pc = "idle"
    /\ op' = "start_docker"
    /\ pc' = "sd_start"
    /\ UNCHANGED <<subcmd, is_prod, auto_scale, port, metadata, stateFile, files, log, i, ret, exit_code>>
    /\ UNCHANGED <<containers, cluster, calls>>

launch_docker_desktop ==
    /\ pc = "idle"
    /\ op' = "launch_docker_desktop"
    /\ pc' = "sd_start"
    /\ UNCHANGED <<subcmd, is_prod, auto_scale, port, metadata, stateFile, files, log, i, ret, exit_code>>
    /\ UNCHANGED <<containers, cluster, calls>>

\* lines 138-143 / 266-271 (target_os = "linux"): `systemctl --user start docker`
start_docker_command ==
    /\ pc = "sd_start"
    /\ \E r \in CmdResult :
          /\ log' = Append(log, Call("systemctl --user start docker", r, <<>>))
          /\ IF Spawned(r)
                THEN /\ pc' = "sd_poll"
                     /\ i' = 0
                     /\ UNCHANGED <<ret, exit_code>>
                ELSE /\ Return(Err("io error"))
                     /\ i' = i
    /\ UNCHANGED <<op, subcmd, is_prod, auto_scale, port, metadata, stateFile, files>>
    /\ UNCHANGED <<containers, cluster, calls>>

\* lines 148-149 / 276-277: `match Command::new("docker").arg("info").output() { Ok(_) => ...`
DockerNowRunning(r) == Spawned(r)

\* the verifiers that start the daemon through launch_docker_desktop
ViaDesktop == {"launch_docker_desktop", "verify_docker_installation"}

\* line 163 / line 291
StartFailure == IF op \in ViaDesktop THEN "Docker Desktop failed to start"
                ELSE "Docker failed to start"

\* one iteration of `for _ in 0..30`; leaving the loop returns the error
start_docker_poll ==
    /\ pc = "sd_poll"
    /\ i < DockerPollAttempts
    /\ \E r \in CmdResult :
          IF DockerNowRunning(r)
            THEN /\ log' = Append(log, Call("docker info", r, <<>>))
                 /\ Return(Ok(""))
                 /\ i' = i
            ELSE /\ log' = log \o <<Call("docker info", r, <<>>), Sleep(DockerPollSleep)>>
                 /\ i' = i + 1
                 /\ IF i + 1 = DockerPollAttempts
                      THEN Return(Err(StartFailure))
                      ELSE UNCHANGED <<pc, ret, exit_code>>
    /\ UNCHANGED <<op, subcmd, is_prod, auto_scale, port, metadata, stateFile, files>>
    /\ UNCHANGED <<containers, cluster, calls>>

(***************************************************************************)
(* DockerManager::install_docker (target_os = "linux")                     *)
(***************************************************************************)
\* `Command::new("sudo")...status()?`: the exit status is dropped, only a
\* command that cannot be spawned ends the routine
install_docker_step(at, cmd, next) ==
    /\ pc = at
    /\ \E r \in CmdResult :
          /\ log' = Append(log, Call(cmd, r, <<>>))
          /\ IF Spawned(r)
                THEN /\ pc' = next
                     /\ UNCHANGED <<ret, exit_code>>
                ELSE Return(Err("io error"))
    /\ UNCHANGED <<op, subcmd, is_prod, auto_scale, port, metadata, stateFile, files, i>>
    /\ UNCHANGED <<containers, cluster, calls>>

\* line 228
install_docker_update ==
    install_docker_step("id_update", "sudo apt-get update", "id_install")
\* lines 230-232
install_docker_install ==
    install_docker_step("id_install", "sudo apt-get install -y docker.io", "id_enable")
\* lines 234-236
install_docker_enable ==
    install_docker_step("id_enable", "sudo systemctl enable docker", "id_usermod")
\* lines 238-240; the caller goes on with start_docker
install_docker_usermod ==
    install_docker_step("id_usermod", "sudo usermod -aG docker", "sd_start")

(***************************************************************************)
(* The verifiers of the container runtime                                  *)
(***************************************************************************)
verify_and_setup_docker ==
    /\ pc = "idle"
    /\ op' = "verify_and_setup_docker"
    /\ pc' = "vsd_version"
    /\ UNCHANGED <<subcmd, is_prod, auto_scale, port, metadata, stateFile, files, log, i, ret, exit_code>>
    /\ UNCHANGED <<containers, cluster, calls>>

\* lines 93-94 and 110-116: `match ...arg("--version").output() { Ok(_) => ..., Err(_) => install }`
verify_and_setup_docker_version ==
    /\ pc = "vsd_version"
    /\ \E r \in CmdResult :
          /\ log' = Append(log, Call("docker --version", r, <<>>))
          /\ pc' = IF Spawned(r) THEN "vsd_info" ELSE "id_update"
    /\ UNCHANGED <<op, subcmd, is_prod, auto_scale, port, metadata, stateFile, files, i, ret, exit_code>>
    /\ UNCHANGED <<containers, cluster, calls>>

\* lines 98-108: `match ...arg("info").output() { Ok(_) => Ok(()), Err(_) => start_docker }`
verify_and_setup_docker_info ==
    /\ pc = "vsd_info"
    /\ \E r \in CmdResult :
          /\ log' = Append(log, Call("docker info", r, <<>>))
          /\ IF Spawned(r)
                THEN Return(Ok(""))
                ELSE /\ pc' = "sd_start"
                     /\ UNCHANGED <<ret, exit_code>>
    /\ UNCHANGED <<op, subcmd, is_prod, auto_scale, port, metadata, stateFile, files, i>>
    /\ UNCHANGED <<containers, cluster, calls>>

check_docker_setup ==
    /\ pc = "idle"
    /\ op' = "check_docker_setup"
    /\ pc' = "cds_version"
    /\ UNCHANGED <<subcmd, is_prod, auto_scale, port, metadata, stateFile, files, log, i, ret, exit_code>>
    /\ UNCHANGED <<containers, cluster, calls>>

\* lines 296-308
check_docker_setup_version ==
    /\ pc = "cds_version"
    /\ \E r \in CmdResult :
          /\ log' = Append(log, Call("docker --version", r, <<>>))
          /\ IF Spawned(r)
                THEN Return(Ok(""))
                ELSE /\ pc' = "id_update"
                     /\ UNCHANGED <<ret, exit_code>>
    /\ UNCHANGED <<op, subcmd, is_prod, auto_scale, port, metadata, stateFile, files, i>>
    /\ UNCHANGED <<containers, cluster, calls>>

verify_docker_installation ==
    /\ pc = "idle"
    /\ op' = "verify_docker_installation"
    /\ pc' = "vdi_version"
    /\ UNCHANGED <<subcmd, is_prod, auto_scale, port, metadata, stateFile, files, log, i, ret, exit_code>>
    /\ UNCHANGED <<containers, cluster, calls>>

\* lines 594-595 and 611-614
verify_docker_installation_version ==
    /\ pc = "vdi_version"
    /\ \E r \in CmdResult :
          /\ log' = Append(log, Call("docker --version", r, <<>>))
          /\ IF Spawned(r)
                THEN /\ pc' = "vdi_info"
                     /\ UNCHANGED <<ret, exit_code>>
                ELSE Return(Err("Docker is not installed. Please install Docker Desktop first"))
    /\ UNCHANGED <<op, subcmd, is_prod, auto_scale, port, metadata, stateFile, files, i>>
    /\ UNCHANGED <<containers, cluster, calls>>

\* lines 599-608: `Ok(output) if output.status.success()` else launch_docker_desktop
verify_docker_installation_info ==
    /\ pc = "vdi_info"
    /\ \E r \in CmdResult :
          /\ log' = Append(log, Call("docker info", r, <<>>))
          /\ IF Success(r)
                THEN Return(Ok(""))
                ELSE /\ pc' = "sd_start"
                     /\ UNCHANGED <<ret, exit_code>>
    /\ UNCHANGED <<op, subcmd, is_prod, auto_scale, port, metadata, stateFile, files, i>>
    /\ UNCHANGED <<containers, cluster, calls>>

(***************************************************************************)
(* create_namespace_with_quotas(namespace, mode)                           *)
(***************************************************************************)
\* lines 1069-1093: the hard limits of the ResourceQuota
QuotaSpec(mode) ==
    IF mode = "prod"
      THEN [kind |-> "ResourceQuota",
            requests_cpu |-> Quantity(4, ""), requests_memory |-> Quantity(8, "Gi"),
            limits_cpu |-> Quantity(8, ""),   limits_memory |-> Quantity(16, "Gi")]
      ELSE [kind |-> "ResourceQuota",
            requests_cpu |-> Quantity(1, ""), requests_memory |-> Quantity(2, "Gi"),
            limits_cpu |-> Quantity(2, ""),   limits_memory |-> Quantity(4, "Gi")]

\* called in an empty directory, or after the manifests have been rendered
create_namespace_with_quotas ==
    /\ \/ pc = "idle"
       \/ (pc = "done" /\ op = "generate_kubernetes_manifests" /\ ret.kind = "Ok" /\ calls = 0)
    /\ is_prod' \in BOOLEAN
    /\ cluster' \in Clusters
    /\ op' = "create_namespace_with_quotas"
    /\ pc' = "cnq_write_quota"
    /\ ret' = Running
    /\ UNCHANGED <<subcmd, auto_scale, port, metadata, stateFile, files, log, i, exit_code>>
    /\ UNCHANGED <<containers, calls>>

\* line 1095: fs::write("quota.yaml", quota_spec)?
create_namespace_with_quotas_write ==
    /\ pc = "cnq_write_quota"
    /\ \E w \in WriteResult :
          /\ log' = Append(log, FsWrite("quota.yaml", w))
          /\ IF w = "ok"
                THEN /\ files' = Written(files, "quota.yaml",
                                         QuotaSpec(IF is_prod THEN "prod" ELSE "dev"))
                     /\ pc' = "cnq_create_namespace"
                     /\ UNCHANGED <<ret, exit_code>>
                ELSE /\ Return(Err("io error"))
                     /\ UNCHANGED files
    /\ UNCHANGED <<op, subcmd, is_prod, auto_scale, port, metadata, stateFile, i>>
    /\ UNCHANGED <<containers, cluster, calls>>

\* lines 1098-1107: `kubectl create namespace <ns> --dry-run=client -o yaml`, `.output()?`
create_namespace_with_quotas_namespace ==
    /\ pc = "cnq_create_namespace"
    /\ \E r \in CmdResult :
          /\ log' = Append(log, Call("kubectl create namespace --dry-run=client", r, <<>>))
          /\ cluster' = DryRunObjects(r)
          /\ IF Spawned(r)
                THEN /\ pc' = "cnq_apply_quota"
                     /\ UNCHANGED <<ret, exit_code>>
                ELSE Return(Err("io error"))
    /\ UNCHANGED <<op, subcmd, is_prod, auto_scale, port, metadata, stateFile, files, i>>
    /\ UNCHANGED <<containers, calls>>

\* lines 1109-1113: `kubectl apply -f quota.yaml -n <ns>`, `.output()?`, then Ok(())
create_namespace_with_quotas_apply ==
    /\ pc = "cnq_apply_quota"
    /\ \E r \in ApplyOutcomes :
          /\ log' = Append(log, Call("kubectl apply -f quota.yaml", r, <<>>))
          /\ cluster' = AppliedObjects("quota", r)
          /\ IF Spawned(r)
                THEN Return(Ok(""))
                ELSE Return(Err("io error"))
    /\ UNCHANGED <<op, subcmd, is_prod, auto_scale, port, metadata, stateFile, files, i>>
    /\ UNCHANGED <<containers, calls>>

(***************************************************************************)
(* cleanup_deployment(app_name, namespace)                                 *)
(***************************************************************************)
\* cleanup is called for the app after a deployment that returned Ok, and
\* again after a cleanup
cleanup_deployment ==
    /\ pc = "done"
    /\ \/ (op \in {"deploy_to_kubernetes", "deploy_to_docker"} /\ ret.kind = "Ok")
       \/ op = "cleanup_deployment"
    /\ calls < MaxCalls
    /\ calls' = calls + 1
    /\ op' = "cleanup_deployment"
    /\ pc' = "cd_delete_succeeded"
    /\ ret' = Running
    /\ UNCHANGED <<subcmd, is_prod, auto_scale, port, metadata, stateFile, files, log, i, exit_code>>
    /\ UNCHANGED <<containers, cluster>>

\* `kubectl delete pods -n <ns> -l app=<app> --field-selector status.phase=<phase>`,
\* `.output()?`: finished pods are deleted, no other object is touched
cleanup_deployment_delete(at, phase, next) ==
    /\ pc = at
    /\ \E r \in CmdResult :
          /\ log' = Append(log, Call("kubectl delete pods --field-selector status.phase=" \o phase,
                                     r, <<>>))
          /\ IF ~Spawned(r)
                THEN Return(Err("io error"))
                ELSE IF next = "done"
                       THEN Return(Ok(""))
                       ELSE /\ pc' = next
                            /\ UNCHANGED <<ret, exit_code>>
    /\ UNCHANGED <<op, subcmd, is_prod, auto_scale, port, metadata, stateFile, files, i>>
    /\ UNCHANGED <<containers, cluster, calls>>

\* lines 1187-1198
cleanup_deployment_succeeded ==
    cleanup_deployment_delete("cd_delete_succeeded", "Succeeded", "cd_delete_failed")
\* lines 1201-1215
cleanup_deployment_failed ==
    cleanup_deployment_delete("cd_delete_failed", "Failed", "done")

(***************************************************************************)
(* config/nginx.rs: generate_nginx_config(mode)                            *)
(***************************************************************************)
\* lines 2-7: the only part of the text that depends on the argument
NginxConfig(mode) == "worker_processes " \o (IF mode = "prod" THEN "auto" ELSE "4")

generate_nginx_config ==
    /\ pc = "idle"
    /\ is_prod' \in BOOLEAN
    /\ op' = "generate_nginx_config"
    /\ pc' = "done"
    /\ ret' = [Ok(NginxConfig(IF is_prod' THEN "prod" ELSE "dev")) EXCEPT !.at = "idle"]
    /\ UNCHANGED <<subcmd, auto_scale, port, metadata, stateFile, files, log, i, exit_code>>
    /\ UNCHANGED <<containers, cluster, calls>>

\* the same mode is rendered again
generate_nginx_config_again ==
    /\ pc = "done"
    /\ op = "generate_nginx_config"
    /\ calls < MaxCalls
    /\ calls' = calls + 1
    /\ ret' = [Ok(NginxConfig(IF is_prod THEN "prod" ELSE "dev")) EXCEPT !.at = "done"]
    /\ UNCHANGED <<op, pc, subcmd, is_prod, auto_scale, port, metadata, stateFile, files, log, i, exit_code>>
    /\ UNCHANGED <<containers, cluster>>

(***************************************************************************)
(* verify_kubernetes_setup                                                 *)
(***************************************************************************)
NodePollAttempts == 30       \* for i in 0..30
NodePollSleep == 2           \* Duration::from_secs(2)

verify_kubernetes_setup ==
    /\ pc = "idle"
    /\ op' = "verify_kubernetes_setup"
    /\ pc' = "vks_version"
    /\ UNCHANGED <<subcmd, is_prod, auto_scale, port, metadata, stateFile, files, log, i, ret, exit_code>>
    /\ UNCHANGED <<containers, cluster, calls>>

\* lines 1395-1403: `match Command::new("kubectl").arg("version").output() { Ok(_) => ...`
verify_kubernetes_setup_version ==
    /\ pc = "vks_version"
    /\ \E r \in CmdResult :
          /\ log' = Append(log, Call("kubectl version", r, <<>>))
          /\ IF Spawned(r)
                THEN /\ pc' = "vks_docker_info"
                     /\ UNCHANGED <<ret, exit_code>>
                ELSE Return(Err("kubectl is not installed. Please install kubectl first."))
    /\ UNCHANGED <<op, subcmd, is_prod, auto_scale, port, metadata, stateFile, files, i>>
    /\ UNCHANGED <<containers, cluster, calls>>

\* lines 1406-1412: `.output()?` and `if !docker_status.status.success()`
verify_kubernetes_setup_docker_info ==
    /\ pc = "vks_docker_info"
    /\ \E r \in CmdResult :
          /\ log' = Append(log, Call("docker info", r, <<>>))
          /\ IF ~Spawned(r)
                THEN Return(Err("io error"))
                ELSE IF ~Success(r)
                       THEN Return(Err("Docker Desktop is not running. Please start Docker Desktop first."))
                       ELSE /\ pc' = "vks_get_contexts"
                            /\ UNCHANGED <<ret, exit_code>>
    /\ UNCHANGED <<op, subcmd, is_prod, auto_scale, port, metadata, stateFile, files, i>>
    /\ UNCHANGED <<containers, cluster, calls>>

\* lines 1416-1432: the stdout is searched whatever the exit status
verify_kubernetes_setup_get_contexts ==
    /\ pc = "vks_get_contexts"
    /\ \E r \in CmdResult, out \in ContextLists :
          /\ Spawned(r) \/ out = <<>>
          /\ log' = Append(log, Call("kubectl config get-contexts", r, out))
          /\ IF ~Spawned(r)
                THEN Return(Err("io error"))
                ELSE IF ~ContainsDockerDesktop(out)
                       THEN Return(Err("Kubernetes is not enabled in Docker Desktop"))
                       ELSE /\ pc' = "vks_use_context"
                            /\ UNCHANGED <<ret, exit_code>>
    /\ UNCHANGED <<op, subcmd, is_prod, auto_scale, port, metadata, stateFile, files, i>>
    /\ UNCHANGED <<containers, cluster, calls>>

\* lines 1435-1437: `.output()?`, the exit status is not read
verify_kubernetes_setup_use_context ==
    /\ pc = "vks_use_context"
    /\ \E r \in CmdResult :
          /\ log' = Append(log, Call("kubectl config use-context docker-desktop", r, <<>>))
          /\ IF Spawned(r)
                THEN /\ pc' = "vks_get_nodes"
                     /\ i' = 0
                     /\ UNCHANGED <<ret, exit_code>>
                ELSE /\ Return(Err("io error"))
                     /\ i' = i
    /\ UNCHANGED <<op, subcmd, is_prod, auto_scale, port, metadata, stateFile, files>>
    /\ UNCHANGED <<containers, cluster, calls>>

\* stdout of `kubectl get nodes`: the STATUS column, in pieces
NodeLists == {<<>>, <<"Not", "Ready">>, <<"Ready">>, <<"Not", "Ready", " ", "Ready">>}

\* line 1446: `nodes.contains("Ready")`, a substring search
ContainsReady(out) == \E k \in 1..Len(out) : out[k] = "Ready"

\* the calls made before the loop
BeforeNodePolls == SubSeq(log, 1, 4)

\* lines 1442-1462, one iteration of `for i in 0..30`; of the loop the log
\* keeps the calls of the latest iteration, i counts the polls made.  A poll
\* that exits zero always takes the first arm, also when its stdout has no
\* "Ready": that iteration neither sleeps nor reaches `_ if i == 29`, and
\* after the 30th one the function falls through to the final Ok(()).
verify_kubernetes_setup_get_nodes ==
    /\ pc = "vks_get_nodes"
    /\ i < NodePollAttempts
    /\ i' = i + 1
    /\ \E r \in CmdResult, out \in NodeLists, flush \in WriteResult :
          /\ Success(r) \/ out = <<>>
          /\ Success(r) => flush = "ok"
          /\ IF Success(r)
               THEN /\ log' = BeforeNodePolls \o <<Call("kubectl get nodes", r, out)>>
                    /\ IF ContainsReady(out) \/ i = NodePollAttempts - 1
                         THEN Return(Ok(""))
                         ELSE UNCHANGED <<pc, ret, exit_code>>
               ELSE IF i = NodePollAttempts - 1
                      THEN /\ flush = "ok"
                           /\ log' = BeforeNodePolls \o <<Call("kubectl get nodes", r, out)>>
                           /\ Return(Err("Kubernetes failed to start after 30 attempts"))
                      ELSE IF flush = "io_err"
                             THEN /\ log' = BeforeNodePolls \o <<Call("kubectl get nodes", r, out)>>
                                  /\ Return(Err("io error"))
                             ELSE /\ log' = BeforeNodePolls \o <<Call("kubectl get nodes", r, out),
                                                                  Sleep(NodePollSleep)>>
                                  /\ UNCHANGED <<pc, ret, exit_code>>
    /\ UNCHANGED <<op, subcmd, is_prod, auto_scale, port, metadata, stateFile, files>>
    /\ UNCHANGED <<containers, cluster, calls>>

Next ==
    \/ main
    \/ main_again
    \/ check_kubernetes_connection_docker_info
    \/ check_kubernetes_connection_current_context
    \/ check_kubernetes_connection_get_contexts
    \/ check_kubernetes_connection_use_context
    \/ check_kubernetes_connection_cluster_info
    \/ initialize_project
    \/ create_docker_files
    \/ deploy_with_docker_build
    \/ deploy_with_docker_run
    \/ verify_infrastructure_docker_version
    \/ verify_infrastructure_docker_ps
    \/ verify_infrastructure_use_context
    \/ verify_infrastructure_cluster_info_dump
    \/ verify_infrastructure_get_namespaces
    \/ verify_infrastructure_get_ingress_pods
    \/ install_nginx_ingress_apply
    \/ install_nginx_ingress_wait
    \/ verify_container_status_running
    \/ verify_container_status_health
    \/ generate_kubernetes_manifests
    \/ generate_kubernetes_manifests_again
    \/ generate_nginx_config
    \/ generate_nginx_config_again
    \/ generate_kubernetes_manifests_deployment
    \/ generate_kubernetes_manifests_service
    \/ save_metadata
    \/ deploy_application
    \/ deploy_to_kubernetes
    \/ apply_kubernetes_manifests_namespace
    \/ apply_kubernetes_manifests_deployment
    \/ apply_kubernetes_manifests_service
    \/ wait_for_kubernetes_deployment
    \/ cleanup_deployment
    \/ cleanup_deployment_succeeded
    \/ cleanup_deployment_failed
    \/ create_namespace_with_quotas
    \/ create_namespace_with_quotas_write
    \/ create_namespace_with_quotas_namespace
    \/ create_namespace_with_quotas_apply
    \/ update_pod_status_call
    \/ update_pod_status
    \/ deploy_to_docker
    \/ deploy_to_docker_dockerfile
    \/ deploy_to_docker_compose
    \/ deploy_to_docker_build
    \/ deploy_to_docker_run
    \/ start_docker
    \/ launch_docker_desktop
    \/ start_docker_command
    \/ start_docker_poll
    \/ install_docker_update
    \/ install_docker_install
    \/ install_docker_enable
    \/ install_docker_usermod
    \/ verify_and_setup_docker
    \/ verify_and_setup_docker_version
    \/ verify_and_setup_docker_info
    \/ check_docker_setup
    \/ check_docker_setup_version
    \/ verify_docker_installation
    \/ verify_docker_installation_version
    \/ verify_docker_installation_info
    \/ verify_kubernetes_setup
    \/ verify_kubernetes_setup_version
    \/ verify_kubernetes_setup_docker_info
    \/ verify_kubernetes_setup_get_contexts
    \/ verify_kubernetes_setup_use_context
    \/ verify_kubernetes_setup_get_nodes

Spec == Init /\ [][Next]_vars

(***************************************************************************)
(* Vocabulary of the properties                                            *)
(***************************************************************************)
DeployRun == op = "main" /\ subcmd = "deploy"
Finished == pc = "done"
Indices(cmd) == {k \in 1..Len(log) : log[k].cmd = cmd}
IsBuild(c) == c.cmd \in {"docker build -t app:latest", "docker build -t app-app"}
IsRun(c) == c.cmd \in {"docker run -d --name app", "docker run -d app-app"}
IsApply(c) == c.cmd \in {"kubectl apply -f k8s-deployment.yaml", "kubectl apply -f k8s-service.yaml",
                         "kubectl apply -f ingress-nginx/deploy.yaml"}
IsRollout(c) == c.cmd = "kubectl rollout status deployment app-deployment -n production"
IsWrite(c) == c.cmd \in {"fs::write k8s-deployment.yaml", "fs::write k8s-service.yaml",
                         "fs::write .container-metadata.json", "fs::write Dockerfile",
                         "fs::write docker-compose.yml"}
NothingDeployed ==
    /\ \A k \in 1..Len(log) : ~IsBuild(log[k]) /\ ~IsRun(log[k]) /\ ~IsApply(log[k]) /\ ~IsWrite(log[k])
    /\ files = NoFiles
    /\ stateFile = None

ConnectFailure == "Failed to connect to Kubernetes cluster after 3 attempts"
CheckPositions == {"ckc_docker_info", "ckc_current_context", "ckc_get_contexts",
                   "ckc_use_context", "ckc_cluster_info"}
\* the environment is not fit for a deploy: the runtime is absent or not
\* live (the liveness query of the connection check could not be run or
\* exited non-zero), or the cluster stayed unreachable for all 3 attempts,
\* or check_kubernetes_connection returned an error
EnvironmentCheckFailed ==
    /\ DeployRun
    /\ \/ (Len(log) >= 1 /\ log[1].st # "ok")
       \/ Cardinality({k \in Indices("kubectl cluster-info") : log[k].st # "ok"}) = 3
       \/ (ret.kind = "Err" /\ ret.at \in CheckPositions)

\* C1 (as stated): when the environment check at the start of a deploy
\* fails (runtime absent or not live, cluster unreachable after its
\* retries), the deploy ends with an error and a non-zero exit, nothing is
\* built, run, applied or written in that run, and no record carries a
\* status other than "pending".
C1_AsStated ==
    EnvironmentCheckFailed =>
        /\ NothingDeployed
        /\ Finished => (exit_code = 1 /\ ret.kind = "Err")
        /\ IsSome(metadata) => Unwrap(metadata)._status = "pending"

\* C2 (as stated): in a deploy, the image build is issued only after a
\* liveness query of the runtime that reported success, and the rollout wait
\* only after the manifests were applied successfully.
C2_AsStated ==
    /\ \A k \in 1..Len(log) :
          (DeployRun /\ IsBuild(log[k])) =>
              \E j \in 1..(k - 1) : log[j].cmd = "docker info" /\ log[j].st = "ok"
    /\ \A k \in 1..Len(log) :
          IsRollout(log[k]) =>
              \A f \in {"kubectl apply -f k8s-deployment.yaml", "kubectl apply -f k8s-service.yaml"} :
                  \E j \in 1..(k - 1) : log[j].cmd = f /\ log[j].st = "ok"

\* C3 (as stated): in deploy_with_docker and deploy_to_docker a non-zero exit
\* of the build returns an error, is not retried and is never followed by a
\* run; a non-zero exit of the run returns an error and no container id.
C3_AsStated ==
    /\ \A k \in 1..Len(log) :
          (IsBuild(log[k]) /\ log[k].st = "fail") =>
              /\ Finished /\ ret.kind = "Err"
              /\ \A j \in (k + 1)..Len(log) : ~IsRun(log[j]) /\ ~IsBuild(log[j])
    /\ \A k \in 1..Len(log) :
          (IsRun(log[k]) /\ log[k].st = "fail") => (Finished /\ ret.kind = "Err")

\* C4 (as stated): when the build exits non-zero, the state file holds the
\* failure status BuildFailed when the command exits.
C4_AsStated ==
    (DeployRun /\ Finished /\ \E k \in 1..Len(log) : IsBuild(log[k]) /\ log[k].st = "fail") =>
        (IsSome(stateFile) /\ Unwrap(stateFile).status = "BuildFailed")

(***************************************************************************)
(* The status state machine of the specification                           *)
(***************************************************************************)
StatusChain == <<"pending", "initializing", "built", "running", "verified", "deploying", "rolledout">>
FailureAfter == [s \in {"initializing", "built", "running", "deploying"} |->
                    CASE s = "initializing" -> "buildfailed"
                      [] s = "built"        -> "startupfailed"
                      [] s = "running"      -> "verificationfailed"
                      [] s = "deploying"    -> "rolloutfailed"]
Forward(a, b) ==
    \/ a = b
    \/ \E n \in 1..(Len(StatusChain) - 1) : a = StatusChain[n] /\ b = StatusChain[n + 1]
    \/ (a \in DOMAIN FailureAfter /\ b = FailureAfter[a])

C5_Step ==
    IsSome(metadata') =>
        /\ IsSome(metadata) => Forward(Unwrap(metadata)._status, Unwrap(metadata')._status)
        /\ ~IsSome(metadata) => Unwrap(metadata')._status = "pending"

\* C5: every step leaves the record's status where it is or moves it one
\* stage forward along the chain (or into the failure state of its stage);
\* a record only appears as a fresh record with status "pending", and no
\* step of a run takes a record away or moves its status back (a new run of
\* the process starts without a record).
ProcessStart == op' = "main" /\ pc' = "ckc_docker_info" /\ log' = <<>>
C6_AsStated ==
    /\ (DeployRun /\ ~is_prod /\ Finished /\ exit_code = 0) =>
          /\ IsSome(stateFile)
          /\ Unwrap(stateFile).status = "running"
          /\ Unwrap(stateFile).containerId = Some("cid")
    /\ (DeployRun /\ IsSome(metadata) /\ IsSome(Unwrap(metadata).container_id)) =>
          \E k \in 1..Len(log) : IsRun(log[k]) /\ log[k].st = "ok"

\* C7 (as stated): a dev-mode deploy writes no k8s manifest file and issues
\* no kubectl apply.
C7_AsStated ==
    (DeployRun /\ ~is_prod) =>
        /\ DOMAIN files \cap {"k8s-deployment.yaml", "k8s-service.yaml"} = {}
        /\ \A k \in 1..Len(log) : ~IsApply(log[k])

\* C8 (as stated): a prod-mode deploy with 3 replicas in which every external
\* command succeeds ends with status RolledOut, 3 pod_status entries and the
\* ingress host "<name>.local".
C8_AsStated ==
    (DeployRun /\ is_prod /\ auto_scale /\ Finished /\ \A k \in 1..Len(log) : log[k].st = "ok") =>
        /\ exit_code = 0
        /\ IsSome(stateFile)
        /\ Unwrap(stateFile).status = "rolledout"
        /\ Len(Unwrap(stateFile).kubernetesMetadata.podStatus) = 3
        /\ Unwrap(stateFile).kubernetesMetadata.ingressHost = Some(Unwrap(stateFile).appName \o ".local")

StartRun == op \in {"start_docker", "launch_docker_desktop"}
Polls == Indices("docker info")

\* C9 (as stated): start_docker and launch_docker_desktop poll liveness at
\* most 30 times, sleep 2 seconds after each poll that did not find the
\* runtime live, return Ok at the first poll that finds it live, and return
\* the failure exactly when all 30 polls fail.
C9_AsStated ==
    StartRun =>
        /\ Cardinality(Polls) <= 30
        /\ \A k \in Polls : log[k].st # "ok" => (k < Len(log) /\ log[k + 1] = Sleep(2))
        /\ (Finished /\ ret.kind = "Ok") => (log[Len(log)].cmd = "docker info" /\ log[Len(log)].st = "ok")
        /\ (Finished /\ ret.val = StartFailure) <=>
              (Cardinality(Polls) = 30 /\ \A k \in Polls : log[k].st # "ok")

Attempts == Indices("kubectl cluster-info")
PastCheck == op = "main" /\ pc \notin (CheckPositions \cup {"idle"})
                /\ ~(ret.kind = "Err" /\ ret.at \in CheckPositions)

\* C10: check_kubernetes_connection makes at most 3 cluster-info attempts,
\* sleeps 5 seconds before the 2nd and the 3rd attempt and at no other
\* time, returns Ok at the first attempt that exits successfully, and
\* returns the "after 3 attempts" error exactly when three attempts failed.
C10_BoundedConnect ==
    op = "main" =>
        /\ Cardinality(Attempts) <= 3
        /\ \A k \in Attempts :
              /\ (\E j \in Attempts : j < k) <=> (k > 1 /\ log[k - 1] = Sleep(5))
              /\ log[k].st = "ok" => (PastCheck /\ \A j \in Attempts : j <= k)
        /\ \A k \in 1..Len(log) : log[k] = Sleep(5) => (k < Len(log) /\ (k + 1) \in Attempts)
        /\ PastCheck => \E k \in Attempts : log[k].st = "ok"
        /\ (ret.kind = "Err" /\ ret.val = ConnectFailure) <=>
              Cardinality({k \in Attempts : log[k].st # "ok"}) = 3

C10_Witness ==
    /\ op = "main" /\ PastCheck
    /\ Cardinality(Attempts) = 3
    /\ log[Len(log)].cmd = "kubectl cluster-info"

(***************************************************************************)
(* C11                                                                     *)
(***************************************************************************)
UseContext == "kubectl config use-context docker-desktop"

\* the context kubectl uses when log[k] is issued: docker-desktop after a
\* switch that exited 0, else what current-context printed, else unset
ActiveContext(k) ==
    LET switched == {j \in 1..(k - 1) : log[j].cmd = UseContext /\ log[j].st = "ok"}
        queried == {j \in 1..(k - 1) : log[j].cmd = "kubectl config current-context"
                                        /\ log[j].out # <<>>}
    IN  IF switched # {} THEN "docker-desktop"
        ELSE IF queried # {} THEN log[CHOOSE j \in queried : \A h \in queried : h <= j].out[1]
        ELSE "unset"

\* C11: every cluster-info attempt of check_kubernetes_connection is made
\* with docker-desktop as the active context, a current context other than
\* docker-desktop (or none) is followed by the search of the context list,
\* and a list without docker-desktop is followed by no cluster-info attempt
C11_AsStated ==
    /\ \A k \in Indices("kubectl cluster-info") : ActiveContext(k) = "docker-desktop"
    /\ \A k \in Indices("kubectl config current-context") :
          (log[k].out # <<"docker-desktop">> /\ log[k].st # "spawn_err" /\ k < Len(log))
              => log[k + 1].cmd = "kubectl config get-contexts"
    /\ \A k \in Indices("kubectl config get-contexts") :
          ~ContainsDockerDesktop(log[k].out) => Indices("kubectl cluster-info") = {}

(***************************************************************************)
(* C12                                                                     *)
(***************************************************************************)
Verifiers == {"verify_and_setup_docker", "check_docker_setup", "verify_docker_installation"}
InstallCommands == {"sudo apt-get update", "sudo apt-get install -y docker.io",
                    "sudo systemctl enable docker", "sudo usermod -aG docker"}
\* the first version query of a verifier could not find the docker binary
RuntimeAbsent ==
    /\ op \in Verifiers
    /\ Len(log) >= 1
    /\ log[1].cmd = "docker --version"
    /\ log[1].st = "spawn_err"
InstallCalls == {k \in 1..Len(log) : log[k].cmd \in InstallCommands}

\* C12: a verifier that finds the runtime absent runs the install routine
\* next, returns an error when a command of the install routine failed, and
\* after an install routine that ran to its end queries the version once
\* more (two queries in all), returning an error if that query fails too
C12_AsStated ==
    (RuntimeAbsent /\ Finished) =>
        /\ InstallCalls # {}
        /\ (\E k \in InstallCalls : log[k].st # "ok") => ret.kind = "Err"
        /\ (Cardinality(InstallCalls) = 4 /\ \A k \in InstallCalls : log[k].st = "ok")
              => Cardinality(Indices("docker --version")) = 2
        /\ ret.kind = "Ok" =>
              \E k \in Indices("docker --version") : k > 1 /\ log[k].st = "ok"

(***************************************************************************)
(* C13                                                                     *)
(***************************************************************************)
\* main runs for a target that is not the cluster: init, or deploy without --prod
LocalTarget == op = "main" /\ (subcmd = "init" \/ (subcmd = "deploy" /\ ~is_prod))
IsClusterCheck(c) ==
    c.cmd \in {"kubectl config current-context", "kubectl config get-contexts", UseContext,
               "kubectl cluster-info", "kubectl cluster-info dump"}
ClusterCheckFailures ==
    {ConnectFailure, "Cannot connect to Kubernetes cluster", "Kubernetes cluster is not ready",
     "Docker Desktop Kubernetes is not enabled. Please enable it in Docker Desktop settings."}

\* C13: a run of main for a local target (init, or deploy without --prod)
\* issues no cluster context or reachability command, in particular no
\* context switch, and is never ended by the error of a cluster check
C13_AsStated ==
    LocalTarget =>
        /\ \A k \in 1..Len(log) : ~IsClusterCheck(log[k])
        /\ ~(ret.kind = "Err" /\ ret.val \in ClusterCheckFailures)

(***************************************************************************)
(* C14                                                                     *)
(***************************************************************************)
ClusterRun == op = "deploy_to_kubernetes"
IsClusterApply(c) ==
    c.cmd \in {"kubectl create namespace --dry-run=client", "kubectl apply -f k8s-deployment.yaml",
               "kubectl apply -f k8s-service.yaml"}

\* C14: in deploy_to_kubernetes a namespace creation or an apply that
\* exited non-zero is the last command issued, and the procedure has
\* returned an error
C14_AsStated ==
    ClusterRun =>
        \A k \in 1..Len(log) :
            (IsClusterApply(log[k]) /\ log[k].st = "fail")
                => (k = Len(log) /\ Finished /\ ret.kind = "Err")

(***************************************************************************)
(* C15                                                                     *)
(***************************************************************************)
\* position of a command in the dependency order (0: not an apply)
Rank(c) ==
    CASE c.cmd = "kubectl create namespace --dry-run=client" -> 1
      [] c.cmd = "kubectl apply -f quota.yaml" -> 2
      [] c.cmd = "kubectl apply -f k8s-deployment.yaml" -> 3
      [] c.cmd = "kubectl apply -f k8s-service.yaml" -> 4
      [] OTHER -> 0
\* the next command applies an object into the target namespace
AboutToApply == pc \in {"akm_apply_deployment", "akm_apply_service", "cnq_apply_quota"}

\* C15: the applies of a cluster procedure are issued in the order
\* namespace, quota, Deployment, Service, and when an object is about to be
\* applied into the namespace the namespace exists in the cluster
C15_AsStated ==
    /\ \A j, k \in 1..Len(log) :
          (j < k /\ Rank(log[j]) > 0 /\ Rank(log[k]) > 0) => Rank(log[j]) < Rank(log[k])
    /\ AboutToApply => "namespace" \in cluster

(***************************************************************************)
(* C16                                                                     *)
(***************************************************************************)
RolloutCalls == {k \in 1..Len(log) : IsRollout(log[k])}
PodPolls == {k \in 1..Len(log) : log[k].cmd = "kubectl get pods -l app=app"}

\* C16: in deploy_to_kubernetes the rollout wait carries a timeout of 300
\* seconds, a pod poll is preceded by a rollout wait that exited 0, and
\* after a rollout wait that exited non-zero the function has returned an
\* error with pod_status still empty and the record marked RolloutFailed
C16_AsStated ==
    ClusterRun =>
        /\ \A k \in RolloutCalls : log[k].secs = 300
        /\ \A k \in PodPolls : \E j \in RolloutCalls : j < k /\ log[j].st = "ok"
        /\ \A k \in RolloutCalls :
              log[k].st = "fail" =>
                  /\ Finished
                  /\ ret.kind = "Err"
                  /\ Unwrap(metadata).pod_status = <<>>
                  /\ Unwrap(metadata)._status = "RolloutFailed"

(***************************************************************************)
(* C17                                                                     *)
(***************************************************************************)
\* the polls that ran (kubectl was spawned), the last of them, and the
\* phase words of a stdout in which single blanks separate the phases
SpawnedPolls == {k \in PodPolls : log[k].st # "spawn_err"}
LastPoll == CHOOSE k \in SpawnedPolls : \A j \in SpawnedPolls : j <= k
IsPhase(t) == t # " "
WellFormed(out) ==
    /\ Len(out) = 0 \/ Len(out) % 2 = 1
    /\ \A k \in 1..Len(out) : (out[k] = " ") <=> (k % 2 = 0)
Phases(out) == SelectSeq(out, IsPhase)

\* C17: pod_status is the list of phases printed by the most recent poll
\* that ran, whatever it held before (empty if no poll ran yet); a poll
\* that could not be spawned leaves it as it was
C17_PodStatusIsLastPoll ==
    IsSome(metadata) =>
        IF SpawnedPolls = {}
          THEN Unwrap(metadata).pod_status = <<>>
          ELSE /\ Unwrap(metadata).pod_status = split_whitespace(log[LastPoll].out)
               /\ WellFormed(log[LastPoll].out)
                     => Unwrap(metadata).pod_status = Phases(log[LastPoll].out)

\* two polls in a row: the first printed two phases, the second one
C17_Witness ==
    /\ op = "update_pod_status"
    /\ Finished
    /\ Cardinality(SpawnedPolls) = 2
    /\ \E k \in SpawnedPolls : log[k].out = <<"Running", " ", "Pending">> /\ k < LastPoll
    /\ log[LastPoll].out = <<"Pending">>
    /\ Unwrap(metadata).pod_status = <<"Pending">>

(***************************************************************************)
(* C18                                                                     *)
(***************************************************************************)
\* the inspects of verify_container_status that ran
RunningInspects == {k \in Indices("docker inspect .State.Running") : log[k].st # "spawn_err"}
HealthInspects == {k \in Indices("docker inspect .State.Health.Status") : log[k].st # "spawn_err"}
NotRunningError == ret.kind = "Err" /\ ret.val = "Container is not running"
ReturnedInsideVerify == Finished /\ ret.at \in {"vcs_inspect_running", "vcs_inspect_health"}

\* C18: the error 'Container is not running' is returned exactly when the
\* running-state inspect printed something other than "true", and then no
\* health inspect is issued; once a health inspect has printed its status,
\* whatever it is, verify_container_status has returned Ok and its caller
\* goes on
C18_NotRunningIffNotTrue ==
    /\ NotRunningError <=> (\E k \in RunningInspects : log[k].out # <<"true">>)
    /\ NotRunningError =>
          /\ ret.at = "vcs_inspect_running"
          /\ Indices("docker inspect .State.Health.Status") = {}
    /\ HealthInspects # {} =>
          /\ \A k \in RunningInspects : log[k].out = <<"true">>
          /\ ~ReturnedInsideVerify

\* a running container whose health status is "unhealthy": the deploy went
\* on and finished Ok
C18_Witness ==
    /\ op = "deploy_application"
    /\ Finished
    /\ ret.kind = "Ok"
    /\ \E k \in HealthInspects : log[k].out = <<"unhealthy">>

(***************************************************************************)
(* C19                                                                     *)
(***************************************************************************)
\* C19: when a deploy is about to start its container, no container of
\* that name exists any more (an existing one has been stopped and
\* removed), so that the second of two deploys in a row can start it
C19_AsStated ==
    (DeployRun /\ pc = "dwd_run") => Unwrap(metadata).app_name \notin containers

(***************************************************************************)
(* C20                                                                     *)
(***************************************************************************)
CleanupReturned == op = "cleanup_deployment" /\ Finished
DeploymentObjects == {"deployment", "service", "quota"}

\* C20: a call of cleanup_deployment after a deployment, the first or the
\* second in a row, returns Ok and leaves no generated file, no container,
\* no cluster object of the deployment and no container id in the record
C20_AsStated ==
    CleanupReturned =>
        /\ ret.kind = "Ok"
        /\ files = NoFiles
        /\ containers = {}
        /\ cluster \cap DeploymentObjects = {}
        /\ IsSome(metadata) => Unwrap(metadata).container_id = None

(***************************************************************************)
(* C21                                                                     *)
(***************************************************************************)
DeleteSucceeded == "kubectl delete pods --field-selector status.phase=Succeeded"
DeleteFailed == "kubectl delete pods --field-selector status.phase=Failed"

\* C21: whatever the result of the first sub-step of cleanup_deployment
\* (exit 0, exit non-zero, or kubectl could not be run), the second
\* sub-step is issued after it, and a cleanup that returned returned Ok
C21_AsStated ==
    op = "cleanup_deployment" =>
        /\ \A k \in Indices(DeleteSucceeded) :
              (Finished \/ k < Len(log)) => (k < Len(log) /\ log[k + 1].cmd = DeleteFailed)
        /\ Finished => ret.kind = "Ok"

(***************************************************************************)
(* C22                                                                     *)
(***************************************************************************)
\* the commands and writes whose failure is the failure of a gating stage
\* of the deploy subcommand: runtime checks, build, run, cluster check of
\* verify_infrastructure, manifest and state-file writes
IsGating(c) ==
    \/ c.cmd \in {"docker info", "docker --version", "docker ps", "kubectl cluster-info dump"}
    \/ IsBuild(c)
    \/ IsRun(c)
    \/ IsWrite(c)
StageFailed ==
    \/ ret.kind = "Err"
    \/ \E k \in 1..Len(log) : IsGating(log[k]) /\ log[k].st # "ok"

\* C22: a deploy in which a gating stage failed exits non-zero; it exits
\* zero only if every gating stage succeeded
C22_AsStated ==
    (DeployRun /\ Finished /\ StageFailed) => exit_code # 0

(***************************************************************************)
(* C23                                                                     *)
(***************************************************************************)
\* a step of a render of arguments that were rendered before
ReRender ==
    /\ op \in {"generate_kubernetes_manifests", "generate_nginx_config"}
    /\ op' = op
    /\ calls > 0 \/ calls' > 0

Millicores(q) == IF q.unit = "m" THEN q.n ELSE q.n * 1000
Mebibytes(q) == IF q.unit = "Gi" THEN q.n * 1024 ELSE q.n
\* requests and limits of a rendered Deployment as numbers
Figures(d) ==
    [req_cpu |-> Millicores(d.resources.req_cpu), req_mem |-> Mebibytes(d.resources.req_mem),
     lim_cpu |-> Millicores(d.resources.lim_cpu), lim_mem |-> Mebibytes(d.resources.lim_mem)]
ProdFigures == [req_cpu |-> 1000, req_mem |-> 2048, lim_cpu |-> 2000, lim_mem |-> 4096]
OtherFigures == [req_cpu |-> 500, req_mem |-> 512, lim_cpu |-> 1000, lim_mem |-> 1024]
HasDeployment == "k8s-deployment.yaml" \in DOMAIN files

\* C24: whatever the app name, port, replica count and namespace, a
\* rendered Deployment carries 1 / 2Gi / 2 / 4Gi when its mode is prod and
\* 500m / 512Mi / 1 / 1Gi otherwise; each prod figure is strictly above the
\* figure of the other modes, and every request is at most its limit
C24_ResourcesByMode ==
    /\ \A f \in DOMAIN ProdFigures : ProdFigures[f] > OtherFigures[f]
    /\ HasDeployment =>
          LET d == files["k8s-deployment.yaml"] IN
          /\ Figures(d) = IF d.node_env = "prod" THEN ProdFigures ELSE OtherFigures
          /\ Figures(d).req_cpu <= Figures(d).lim_cpu
          /\ Figures(d).req_mem <= Figures(d).lim_mem

\* a Deployment rendered for mode dev with 3 replicas
C24_Witness ==
    /\ op = "generate_kubernetes_manifests"
    /\ HasDeployment
    /\ files["k8s-deployment.yaml"].node_env = "dev"
    /\ files["k8s-deployment.yaml"].replicas = 3
    /\ files["k8s-deployment.yaml"].resources.req_cpu = Quantity(500, "m")

(***************************************************************************)
(* C25                                                                     *)
(***************************************************************************)
HasQuota == "quota.yaml" \in DOMAIN files
QuotaFigures(q) ==
    [req_cpu |-> Millicores(q.requests_cpu), req_mem |-> Mebibytes(q.requests_memory),
     lim_cpu |-> Millicores(q.limits_cpu),   lim_mem |-> Mebibytes(q.limits_memory)]
ProdQuota == [req_cpu |-> 4000, req_mem |-> 8192, lim_cpu |-> 8000, lim_mem |-> 16384]
OtherQuota == [req_cpu |-> 1000, req_mem |-> 2048, lim_cpu |-> 2000, lim_mem |-> 4096]
\* the quota and the Deployment in the directory were written for the same mode
SameMode == (files["k8s-deployment.yaml"].node_env = "prod") <=> is_prod

\* C25: the quota written by create_namespace_with_quotas is fixed by its
\* mode, whatever the record; the requests of all replicas of a
\* Deployment rendered for the same mode fit within it
C25_AsStated ==
    (op = "create_namespace_with_quotas" /\ HasQuota) =>
        LET q == QuotaFigures(files["quota.yaml"]) IN
        /\ q = IF is_prod THEN ProdQuota ELSE OtherQuota
        /\ (HasDeployment /\ SameMode) =>
              LET d == files["k8s-deployment.yaml"] IN
              /\ d.replicas * Figures(d).req_cpu <= q.req_cpu
              /\ d.replicas * Figures(d).req_mem <= q.req_mem

(***************************************************************************)
(* C27                                                                     *)
(***************************************************************************)
SetupRun == op = "verify_kubernetes_setup"
InNodeLoop == SetupRun /\ Len(log) >= 5 /\ log[5].cmd = "kubectl get nodes"
\* the latest poll exited zero and listed a node whose STATUS is Ready
ReadyNodeSeen ==
    /\ log[5].st = "ok"
    /\ \E k \in 1..Len(split_whitespace(log[5].out)) : split_whitespace(log[5].out)[k] = "Ready"
NodesFailure == "Kubernetes failed to start after 30 attempts"

\* C27 (as stated): verify_kubernetes_setup polls the nodes at most 30 times,
\* returns Ok only if a poll succeeded and reported a node in the Ready
\* state, returns the "failed to start after 30 attempts" error when the
\* polls end without one (also when they succeed but list only NotReady
\* nodes or none), and sleeps 2 seconds after each unsuccessful poll that is
\* followed by another.
C27_AsStated ==
    InNodeLoop =>
        /\ i <= 30
        /\ (Finished /\ ret.kind = "Ok") => ReadyNodeSeen
        /\ (Finished /\ ~ReadyNodeSeen /\ i = 30) => (ret.kind = "Err" /\ ret.val = NodesFailure)
        /\ (~Finished /\ ~ReadyNodeSeen) => (Len(log) = 6 /\ log[6] = Sleep(2))

(***************************************************************************)
(* C28                                                                     *)
(***************************************************************************)
LivenessQueries == {k \in 1..Len(log) : log[k].cmd \in {"docker info", "docker ps"}}
StartCommand == "systemctl --user start docker"
\* what follows the query k is what follows a runtime found not running:
\* the start command, the pause before the next poll, or an error return
TreatedAsNotRunning(k) ==
    IF k < Len(log)
      THEN log[k + 1].cmd \in {StartCommand, "sleep"}
      ELSE pc = "sd_start" \/ (Finished /\ ret.kind = "Err")

\* C28 (as stated): the runtime counts as running only when the liveness
\* query exited successfully: a query that was spawned and exited non-zero
\* is never followed by what follows a running runtime, and in
\* verify_and_setup_docker it is followed by the start command.
C28_AsStated ==
    \A k \in LivenessQueries :
        log[k].st = "fail" =>
            /\ TreatedAsNotRunning(k)
            /\ (op = "verify_and_setup_docker" /\ k = 2) =>
                  (pc = "sd_start" \/ (k < Len(log) /\ log[k + 1].cmd = StartCommand))

(***************************************************************************)
(* C29                                                                     *)
(***************************************************************************)
ApplicationRun == op = "deploy_application" \/ DeployRun
\* the positions of deploy_application and of what it calls
ApplicationPositions ==
    {"vi_docker_version", "vi_docker_ps", "vi_use_context", "vi_cluster_info_dump",
     "vi_get_namespaces", "vi_get_ingress_pods", "ini_apply", "ini_wait",
     "vcs_inspect_running", "vcs_inspect_health",
     "gkm_write_deployment", "gkm_write_service", "save_metadata"}
StateWrites == Indices("fs::write .container-metadata.json")
\* the checks of verify_infrastructure and verify_container_status and the
\* writes of generate_kubernetes_manifests
IsVerification(c) ==
    c.cmd \in {"docker --version", "docker ps", "kubectl cluster-info dump", "kubectl get namespaces",
               "docker inspect .State.Running",
               "fs::write k8s-deployment.yaml", "fs::write k8s-service.yaml"}
\* the state file is written at most once, by the step that returns, and
\* every check and every manifest write before it succeeded
WrittenLastAfterSuccess ==
    /\ Cardinality(StateWrites) <= 1
    /\ \A k \in StateWrites :
          /\ k = Len(log) /\ Finished
          /\ \A j \in 1..(k - 1) : IsVerification(log[j]) => log[j].st = "ok"
          /\ IsSome(Unwrap(metadata).container_id) => Indices("docker inspect .State.Running") # {}
          /\ is_prod => Indices("fs::write k8s-service.yaml") # {}
    /\ (Finished /\ ret.kind = "Ok" /\ subcmd # "init" /\ subcmd # "usage") =>
          (StateWrites # {} /\ log[Len(log)].st = "ok")
\* a step of deploy_application leaves the record alone, and leaves the
\* state file alone unless it returns Ok
FrameOfStep ==
    (ApplicationRun /\ pc \in ApplicationPositions) =>
        /\ metadata' = metadata
        /\ (pc' = "done" /\ ret'.kind = "Err") => stateFile' = stateFile
        /\ stateFile' # stateFile => (pc = "save_metadata" /\ pc' = "done" /\ ret'.kind = "Ok")

\* C29 (as stated): deploy_application writes the state file exactly once, as
\* its last step and only after infrastructure verification, container
\* verification (with a container id) and manifest generation (prod) have
\* all succeeded; a step that returns an error neither creates nor changes
\* the state file, and no step changes the record in memory.
C29_AsStated ==
    [][ /\ FrameOfStep
        /\ ApplicationRun' => WrittenLastAfterSuccess' ]_vars

(***************************************************************************)
(* C30                                                                     *)
(***************************************************************************)
\* the runs that create a record and render, build or roll out from it
RecordRun == (DeployRun \/ op = "deploy_to_kubernetes") /\ IsSome(metadata)
WroteOk(name) == \E k \in Indices("fs::write " \o name) : log[k].st = "ok"
\* the timed waits other than the one of install_nginx_ingress
RolloutWaits == {k \in 1..Len(log) : log[k].secs = RolloutTimeout /\ log[k].cmd # "kubectl wait -n ingress-nginx"}
BuiltBefore(tag, name) ==
    \E b \in Indices("docker build -t " \o tag), w \in Indices("fs::write " \o name) :
        b < w /\ log[b].st = "ok"

\* C30: the record's deployment and service names are "<app_name>-deployment"
\* and "<app_name>-service" and are the names in the manifests rendered from
\* it; a rollout wait names the rendered Deployment and the namespace it was
\* rendered for; the image of the Deployment rendered by the deploy command
\* is the tag its own build step has built.
C30_NamesAgree ==
    RecordRun =>
        LET m == Unwrap(metadata) IN
        /\ m.deployment_name = m.app_name \o "-deployment"
        /\ m.service_name = m.app_name \o "-service"
        /\ WroteOk("k8s-deployment.yaml") =>
              /\ files["k8s-deployment.yaml"].name = m.deployment_name
              /\ files["k8s-deployment.yaml"].namespace = m.namespace
              /\ files["k8s-deployment.yaml"].image = m.app_name \o ":latest"
              /\ DeployRun => BuiltBefore(files["k8s-deployment.yaml"].image, "k8s-deployment.yaml")
        /\ WroteOk("k8s-service.yaml") =>
              /\ files["k8s-service.yaml"].name = m.service_name
              /\ files["k8s-service.yaml"].namespace = m.namespace
        /\ \A k \in RolloutWaits :
              /\ WroteOk("k8s-deployment.yaml")
              /\ log[k].cmd = "kubectl rollout status deployment " \o files["k8s-deployment.yaml"].name
                                \o " -n " \o files["k8s-deployment.yaml"].namespace
        /\ (DeployRun /\ Finished /\ ret.kind = "Ok") =>
              /\ Unwrap(stateFile).kubernetesMetadata.deploymentName = m.deployment_name
              /\ Unwrap(stateFile).kubernetesMetadata.serviceName = m.service_name

\* a prod deploy that built the image, rendered both manifests and saved the
\* record
C30_Witness ==
    /\ DeployRun /\ Finished /\ ret.kind = "Ok" /\ is_prod
    /\ WroteOk("k8s-deployment.yaml") /\ WroteOk("k8s-service.yaml")
    /\ BuiltBefore("app:latest", "k8s-deployment.yaml")
    /\ IsSome(stateFile)

====
